---- MODULE Spec2Model ----
(***************************************************************************)
(* Turn-taking state machine (backend/core/state_machine.py) and the      *)
(* audio / text frame routers (backend/core/pipeline_manager.py) of one   *)
(* translation session.                                                   *)
(*                                                                         *)
(* The state machine is a record m with the four private fields of        *)
(* TranslatorStateMachine plus cb, the list of (old, new) pairs handed to *)
(* the state-change callback during the operation in progress.  Every     *)
(* method of the class is an operator from machine record to machine      *)
(* record; every action applies one method (or routes one frame).         *)
(***************************************************************************)
EXTENDS Integers, Sequences, FiniteSets

\* ------------------------------------------------------------------ bounds
\* Number of frames (audio chunks, speech events, text units) that reach the
\* two routers in one behaviour.
MaxFrames == 2

\* settings.max_sessions: the configured maximum of active sessions (the
\* shipped default is 100); any positive value is a legal configuration.
max_sessions == 1

\* Session ids (uuid4 values) handed out in one behaviour.
MaxIds == 2

\* State-machine method calls made on the machines of the registry in one
\* behaviour (the connect() of create_session and the disconnect() of
\* close_session not counted).
MaxCalls == 2

\* settings.session_timeout_seconds, in ticks of the model's clock (the
\* shipped default is 300 seconds).
session_timeout_seconds == 1

\* Last instant of the clock read by datetime.utcnow().
MaxTime == 2

\* start_processing / finish_processing calls in one behaviour.
MaxStageCalls == 4

\* Steps a scripted client takes in one behaviour.
MaxSteps == 5

\* update_metrics calls in one behaviour.
MaxTurns == 3

\* Significant bits of the model's floating-point numbers (a Python float has
\* 53; the rounding rule, round-half-to-even, is the same).
FloatBits == 3

\* The literal 50 of add_message: the length the message history is cut to.
MessageCap == 50

\* add_message calls in one behaviour, and how many of them may be partner turns.
MaxMessages == 52
MaxPartnerTurns == 1

\* ------------------------------------------------------------------- enums
SessionState == {"disconnected", "connected", "user_speaking", "user_processing",
                 "partner_listening", "partner_processing", "error"}

\* SpeakerTurn, with "None" for Optional[SpeakerTurn] = None
SpeakerTurn == {"user", "partner"}

\* Frame classes the audio router looks at (its first isinstance test hands
\* every other class to the base FrameProcessor).
AudioRouterFrames == {"AudioRawFrame", "UserStartedSpeakingFrame", "VADUserStartedSpeakingFrame",
                      "UserStoppedSpeakingFrame", "VADUserStoppedSpeakingFrame"}

FrameDirection == {"DOWNSTREAM", "UPSTREAM"}

\* The methods of TranslatorStateMachine that change it.
MachineOps == {"connect", "disconnect", "handle_ptt_press", "handle_ptt_release",
               "start_user_processing", "finish_user_processing",
               "start_partner_processing", "finish_partner_processing",
               "handle_error", "reset"}

VARIABLES
    sm,        \* the TranslatorStateMachine of the session
    lastOp,    \* the operation that produced the current state, with its inputs
    nFrames,   \* frames routed so far; the next frame gets id nFrames + 1
    sttIn,     \* frames the audio router pushed downstream (to recognition)
    upOut,     \* frames the audio router pushed back upstream
    ttsIn,     \* text frames the text router pushed downstream (to synthesis)
    textOut,   \* calls of PipelineManager._emit_text_output: <<frame id, speaker>>
    \* ---- SessionManager and what lives around it
    sessions,            \* SessionManager._sessions: session id -> SessionData
    state_machines,      \* keys of SessionManager._state_machines
    metrics,             \* SessionManager._metrics: session id -> SessionMetrics
    machines,            \* every TranslatorStateMachine object created so far, by
                         \* session id; pipelines keep their reference after a close
    pipelines,           \* pipelines built by setup_webrtc_pipeline, by session id
    disconnected_since,  \* machines disconnected and neither connected nor reset since
    now,                 \* datetime.utcnow()
    nextId,              \* next uuid4 for a session
    nextMsg,             \* next uuid4 for a message
    nCalls,              \* state-machine method calls made so far
    regOp,               \* the registry operation that produced the current state
    cleanup_task,        \* SessionManager._cleanup_task: "running" or "cancelled"
    \* ---- PipelineManager stage timers, the translation stage, scripted client
    stage_start,         \* stage -> its stored start instant, <<t>>, or <<>> for None
    thinking_out,        \* the values handed to the on_thinking callback, in order
    trOut,               \* frames the TranslationProcessor pushed downstream
    trace                \* the calls made / frames taken in so far, in order (kept
                         \* by the specifications whose claims speak of a sequence)

smvars == <<sm, lastOp, nFrames, sttIn, upOut, ttsIn, textOut>>
regvars == <<sessions, state_machines, metrics, machines, pipelines,
             disconnected_since, now, nextId, nextMsg, nCalls, regOp, cleanup_task>>
auxvars == <<stage_start, thinking_out, trOut, trace>>
vars == <<sm, lastOp, nFrames, sttIn, upOut, ttsIn, textOut,
          sessions, state_machines, metrics, machines, pipelines,
          disconnected_since, now, nextId, nextMsg, nCalls, regOp, cleanup_task,
          stage_start, thinking_out, trOut, trace>>
pipe == <<nFrames, sttIn, upOut, ttsIn, textOut>>

\* -------------------------------------------------- TranslatorStateMachine
\* __init__ (the subscriber of create_session is taken as registered)
NewStateMachine ==
    [state |-> "disconnected", ptt_pressed |-> FALSE, is_processing |-> FALSE,
     current_speaker |-> "None", cb |-> <<>>]

\* The four fields a caller can observe through get_state_info.
get_state_info(m) ==
    <<m.state, m.ptt_pressed, m.is_processing, m.current_speaker>>

is_user_turn(m) == m.ptt_pressed

is_partner_turn(m) ==
    ~m.ptt_pressed /\ m.state \in {"partner_listening", "partner_processing"}

\* Variant of should_enable_vad that looks at the state only.
should_enable_vad_state_only(m) ==
    m.state \in {"connected", "partner_listening"}

should_enable_vad(m) ==
    ~m.ptt_pressed /\ m.state \in {"connected", "partner_listening"}

should_output_audio(m) == m.state \in {"user_speaking", "user_processing"}

transition_to(m, new_state) ==
    IF new_state = m.state
    THEN m
    ELSE [m EXCEPT !.state = new_state, !.cb = Append(@, <<m.state, new_state>>)]

connect(m) == transition_to(m, "connected")

disconnect(m) ==
    [transition_to(m, "disconnected") EXCEPT !.ptt_pressed = FALSE,
                                             !.is_processing = FALSE,
                                             !.current_speaker = "None"]

\* Variant of handle_ptt_press without the test for DISCONNECTED.
handle_ptt_press_unguarded(m) ==
    LET m1 == [m EXCEPT !.ptt_pressed = TRUE, !.current_speaker = "user"]
    IN  IF m1.state # "user_speaking" THEN transition_to(m1, "user_speaking") ELSE m1

\* Variant of handle_ptt_press that raises the flag but leaves the speaker alone.
handle_ptt_press_keeps_speaker(m) ==
    IF m.state = "disconnected"
    THEN m
    ELSE LET m1 == [m EXCEPT !.ptt_pressed = TRUE]
         IN  IF m1.state # "user_speaking" THEN transition_to(m1, "user_speaking") ELSE m1

handle_ptt_press(m) ==
    IF m.state = "disconnected"
    THEN m
    ELSE LET m1 == [m EXCEPT !.ptt_pressed = TRUE, !.current_speaker = "user"]
         IN  IF m1.state # "user_speaking" THEN transition_to(m1, "user_speaking") ELSE m1

\* Variant of handle_ptt_release that does not look at is_processing.
handle_ptt_release_ignores_processing(m) ==
    IF m.state = "disconnected"
    THEN m
    ELSE LET m1 == [m EXCEPT !.ptt_pressed = FALSE]
         IN  IF m1.state = "user_speaking"
             THEN [transition_to(m1, "partner_listening") EXCEPT !.current_speaker = "None"]
             ELSE m1

handle_ptt_release(m) ==
    IF m.state = "disconnected"
    THEN m
    ELSE LET m1 == [m EXCEPT !.ptt_pressed = FALSE]
         IN  IF m1.state = "user_speaking"
             THEN IF m1.is_processing
                  THEN transition_to(m1, "user_processing")
                  ELSE [transition_to(m1, "partner_listening") EXCEPT !.current_speaker = "None"]
             ELSE m1

start_user_processing(m) ==
    LET m1 == [m EXCEPT !.is_processing = TRUE]
    IN  IF m1.ptt_pressed
        THEN [m1 EXCEPT !.state = "user_speaking"]
        ELSE transition_to(m1, "user_processing")

finish_user_processing(m) ==
    LET m1 == [m EXCEPT !.is_processing = FALSE, !.current_speaker = "None"]
    IN  IF m1.state \in {"user_speaking", "user_processing"}
        THEN transition_to(m1, "partner_listening")
        ELSE m1

\* Variant of start_partner_processing guarded by the PTT flag alone.
start_partner_processing_ptt_only(m) ==
    IF ~m.ptt_pressed
    THEN transition_to([m EXCEPT !.is_processing = TRUE, !.current_speaker = "partner"],
                       "partner_processing")
    ELSE m

start_partner_processing(m) ==
    IF ~m.ptt_pressed /\ should_enable_vad(m)
    THEN transition_to([m EXCEPT !.is_processing = TRUE, !.current_speaker = "partner"],
                       "partner_processing")
    ELSE m

finish_partner_processing(m) ==
    LET m1 == [m EXCEPT !.is_processing = FALSE, !.current_speaker = "None"]
    IN  IF m1.state = "partner_processing"
        THEN transition_to(m1, "partner_listening")
        ELSE m1

handle_error(m) ==
    [transition_to(m, "error") EXCEPT !.is_processing = FALSE]

reset(m) ==
    [m EXCEPT !.state = "connected", !.ptt_pressed = FALSE,
              !.is_processing = FALSE, !.current_speaker = "None"]

\* ------------------------------------------------------------------ routers
\* Variant of the audio router without the VAD branch: audio passes only while
\* PTT is held.
AudioRoute_ptt_only(m, kind, dir) ==
    IF dir # "DOWNSTREAM" THEN "upstream"
    ELSE IF kind \in {"UserStartedSpeakingFrame", "VADUserStartedSpeakingFrame"} THEN "stt"
    ELSE IF kind \in {"UserStoppedSpeakingFrame", "VADUserStoppedSpeakingFrame"}
         THEN IF is_user_turn(m) THEN "drop" ELSE "stt"
    ELSE IF is_user_turn(m) THEN "stt"
    ELSE "drop"

\* Variant of the audio router that passes every speech-stopped event.
AudioRoute_passes_stop(m, kind, dir) ==
    IF dir # "DOWNSTREAM" THEN "upstream"
    ELSE IF kind # "AudioRawFrame" THEN "stt"
    ELSE IF is_user_turn(m) THEN "stt"
    ELSE IF should_enable_vad(m) THEN "stt"
    ELSE "drop"

\* AudioRouterProcessor.process_frame: what happens to a frame of class kind
\* travelling in direction dir while the machine is m.
\*   "stt"      pushed downstream, to the recognition stage
\*   "upstream" pushed on upstream, untouched
\*   "drop"     not pushed anywhere
AudioRoute(m, kind, dir) ==
    IF dir # "DOWNSTREAM" THEN "upstream"
    ELSE IF kind \in {"UserStartedSpeakingFrame", "VADUserStartedSpeakingFrame"} THEN "stt"
    ELSE IF kind \in {"UserStoppedSpeakingFrame", "VADUserStoppedSpeakingFrame"}
         THEN IF is_user_turn(m) THEN "drop" ELSE "stt"
    ELSE IF is_user_turn(m) THEN "stt"
    ELSE IF should_enable_vad(m) THEN "stt"
    ELSE "drop"

\* Variant of the text router that sends text to synthesis while PTT is held.
TextToTts_by_ptt(m) == is_user_turn(m)

\* TextRouterProcessor.process_frame on a TextFrame: is it pushed on to the
\* synthesis stage, and is _emit_text_output called (and with which speaker).
TextToTts(m) == should_output_audio(m)

TextEmit(m) == IF m.current_speaker # "None" THEN <<m.current_speaker>> ELSE <<>>

\* ----------------------------------------------------------- SessionManager
\* Python dicts: the empty dict, d[k] = v, d.pop(k, None).
EmptyDict == [k \in {} |-> k]
Put(d, k, v) == [x \in (DOMAIN d) \cup {k} |-> IF x = k THEN v ELSE d[x]]
Pop(d, k) == [x \in (DOMAIN d) \ {k} |-> d[x]]

\* Language pairs a session is created with (two of the LanguageCode values).
LanguagePairs == {<<"en", "es">>, <<"es", "en">>}

\* SessionData as create_session builds it.  Of its fields the model keeps the
\* ones some method of SessionManager writes after construction.
NewSession(id, home, target, t) ==
    [session_id |-> id, state |-> "connected",
     home_language |-> home, target_language |-> target,
     last_activity |-> t, messages |-> <<>>,
     total_user_turns |-> 0, total_partner_turns |-> 0,
     total_processing_time_ms |-> 0]

\* ---- Python floats: <<m, e>> stands for m * 2^e, with m = 0 (and e = 0) or
\* 2^(FloatBits-1) <= m < 2^FloatBits, so that equal numbers are equal pairs.
FloatZero == <<0, 0>>

\* The float nearest to n / d * 2^e (n >= 0, d > 0), ties going to the even m.
RECURSIVE FloatRound(_, _, _)
FloatRound(n, d, e) ==
    IF n = 0 THEN FloatZero
    ELSE IF n >= d * 2^FloatBits THEN FloatRound(n, 2 * d, e + 1)
    ELSE IF n < d * 2^(FloatBits - 1) THEN FloatRound(2 * n, d, e - 1)
    ELSE LET q  == n \div d
             r  == n % d
             m  == IF 2 * r > d \/ (2 * r = d /\ q % 2 = 1) THEN q + 1 ELSE q
         IN  IF m = 2^FloatBits THEN <<2^(FloatBits - 1), e + 1>> ELSE <<m, e>>

\* A float as the fraction Num / Den.
Num(f) == IF f[2] >= 0 THEN f[1] * 2^f[2] ELSE f[1]
Den(f) == IF f[2] >= 0 THEN 1 ELSE 2^(0 - f[2])

\* float * int, float + float, float / int (int >= 1), int(float)
float_mul_int(f, k) == FloatRound(Num(f) * k, Den(f), 0)
float_add(f, g) == FloatRound(Num(f) * Den(g) + Num(g) * Den(f), Den(f) * Den(g), 0)
float_div_int(f, k) == FloatRound(Num(f), Den(f) * k, 0)
float_to_int(f) == Num(f) \div Den(f)

\* SessionMetrics as create_session builds it.
NewMetrics(id) ==
    [session_id |-> id,
     avg_stt_latency |-> FloatZero, avg_translation_latency |-> FloatZero,
     avg_tts_latency |-> FloatZero, avg_total_latency |-> FloatZero,
     total_turns |-> 0, successful_turns |-> 0, failed_turns |-> 0,
     stt_errors |-> 0, translation_errors |-> 0, tts_errors |-> 0]

\* Variant of _on_state_change that writes to every registered session.
on_state_change_updates_all(sess, session_id, new_state, t) ==
    [k \in DOMAIN sess |-> [sess[k] EXCEPT !.state = new_state, !.last_activity = t]]

\* SessionManager._on_state_change
on_state_change(sess, session_id, new_state, t) ==
    IF session_id \in DOMAIN sess
    THEN [sess EXCEPT ![session_id].state = new_state,
                      ![session_id].last_activity = t]
    ELSE sess

\* The subscriber create_session registers on the machine of session_id,
\* run on the callbacks cb of one method call (a method fires at most one).
Notify(sess, session_id, cb, t) ==
    IF cb = <<>> THEN sess
    ELSE on_state_change(sess, session_id, cb[Len(cb)][2], t)

\* The method named op applied to machine m.
ApplyOp(op, m) ==
    CASE op = "connect" -> connect(m)
      [] op = "disconnect" -> disconnect(m)
      [] op = "handle_ptt_press" -> handle_ptt_press(m)
      [] op = "handle_ptt_release" -> handle_ptt_release(m)
      [] op = "start_user_processing" -> start_user_processing(m)
      [] op = "finish_user_processing" -> finish_user_processing(m)
      [] op = "start_partner_processing" -> start_partner_processing(m)
      [] op = "finish_partner_processing" -> finish_partner_processing(m)
      [] op = "handle_error" -> handle_error(m)
      [] op = "reset" -> reset(m)

\* The SessionManager together with the machine objects, as one record w:
\* sessions, state_machines, metrics (the three dicts) and machines.
\* A stored machine has its callbacks delivered, so its cb is empty.

\* Variant of the capacity test that lets one session too many in.
at_capacity_off_by_one(w) == Cardinality(DOMAIN w.sessions) > max_sessions

\* create_session, the capacity test that raises RuntimeError
at_capacity(w) == Cardinality(DOMAIN w.sessions) >= max_sessions

\* Variant of create_session that does not register the state machine.
create_session_without_machine(w, id, home, target, t) ==
    [sessions       |-> Put(w.sessions, id, NewSession(id, home, target, t)),
     state_machines |-> w.state_machines,
     metrics        |-> Put(w.metrics, id, NewMetrics(id)),
     machines       |-> w.machines]

\* create_session past the capacity test; id is the uuid4 drawn.
create_session(w, id, home, target, t) ==
    LET m  == connect(NewStateMachine)
        s1 == Notify(w.sessions, id, m.cb, t)
    IN  [sessions       |-> Put(s1, id, NewSession(id, home, target, t)),
         state_machines |-> w.state_machines \cup {id},
         metrics        |-> Put(w.metrics, id, NewMetrics(id)),
         machines       |-> Put(w.machines, id, [m EXCEPT !.cb = <<>>])]

\* Variant of close_session that leaves the metrics record behind.
close_session_keeps_metrics(w, id, t) ==
    IF id \notin DOMAIN w.sessions
    THEN w
    ELSE LET has == id \in w.state_machines
             m   == disconnect(w.machines[id])
             s1  == IF has THEN Notify(w.sessions, id, m.cb, t) ELSE w.sessions
         IN  [sessions       |-> Pop(s1, id),
              state_machines |-> w.state_machines \ {id},
              metrics        |-> w.metrics,
              machines       |-> IF has
                                 THEN [w.machines EXCEPT ![id] = [m EXCEPT !.cb = <<>>]]
                                 ELSE w.machines]

close_session(w, id, t) ==
    IF id \notin DOMAIN w.sessions
    THEN w
    ELSE LET has == id \in w.state_machines
             m   == disconnect(w.machines[id])
             s1  == IF has THEN Notify(w.sessions, id, m.cb, t) ELSE w.sessions
         IN  [sessions       |-> Pop(s1, id),
              state_machines |-> w.state_machines \ {id},
              metrics        |-> Pop(w.metrics, id),
              machines       |-> IF has
                                 THEN [w.machines EXCEPT ![id] = [m EXCEPT !.cb = <<>>]]
                                 ELSE w.machines]

\* list_sessions: one snapshot per registered session, here its session_id.
list_sessions(w) == {w.sessions[id].session_id : id \in DOMAIN w.sessions}

\* Variant of the inactivity test that also takes a session exactly at the threshold.
inactive_sessions_at_threshold(w, t) ==
    {id \in DOMAIN w.sessions : t - w.sessions[id].last_activity >= session_timeout_seconds}

\* _cleanup_inactive_sessions, one pass of the loop: the sessions found inactive
inactive_sessions(w, t) ==
    {id \in DOMAIN w.sessions : t - w.sessions[id].last_activity > session_timeout_seconds}

\* ... and the loop closing them one after the other.
RECURSIVE close_all(_, _, _)
close_all(w, ids, t) ==
    IF ids = {} THEN w
    ELSE LET id == CHOOSE x \in ids : TRUE
         IN  close_all(close_session(w, id, t), ids \ {id}, t)

\* Variant of the handlers in which any exception ends the cleanup loop.
cleanup_after_breaks_on_any(exc) == "cancelled"

\* _cleanup_inactive_sessions, its two except clauses: the state of the loop
\* after an iteration raised exc.
cleanup_after(exc) == IF exc = "CancelledError" THEN "cancelled" ELSE "running"

\* Variant of the history cut that keeps the oldest entries.
trim_history_keeps_oldest(msgs) ==
    IF Len(msgs) > MessageCap THEN SubSeq(msgs, 1, MessageCap) ELSE msgs

\* add_message: messages[-50:] once the list is longer than 50
trim_history(msgs) ==
    IF Len(msgs) > MessageCap
    THEN SubSeq(msgs, Len(msgs) - MessageCap + 1, Len(msgs))
    ELSE msgs

\* Variant of add_message that counts every message on both turn counters.
add_message_counts_both(w, id, speaker, msg_id, src, tgt, t) ==
    LET session == w.sessions[id]
        message == [id |-> msg_id, speaker |-> speaker,
                    source_language |-> IF speaker = "user" THEN session.home_language
                                        ELSE session.target_language,
                    target_language |-> IF speaker = "user" THEN session.target_language
                                        ELSE session.home_language]
    IN  [w EXCEPT !.sessions[id] =
            [session EXCEPT !.messages = trim_history(Append(@, message)),
                            !.total_user_turns = @ + 1,
                            !.total_partner_turns = @ + 1,
                            !.last_activity = t]]

\* add_message on a session that exists; msg_id is the uuid4 drawn, src and tgt
\* the optional languages ("None" when the caller leaves them out).
add_message(w, id, speaker, msg_id, src, tgt, t) ==
    LET session == w.sessions[id]
        source_language == IF src # "None" THEN src
                           ELSE IF speaker = "user" THEN session.home_language
                                ELSE session.target_language
        target_language == IF tgt # "None" THEN tgt
                           ELSE IF speaker = "user" THEN session.target_language
                                ELSE session.home_language
        message == [id |-> msg_id, speaker |-> speaker,
                    source_language |-> source_language,
                    target_language |-> target_language]
        s1 == [session EXCEPT !.messages = trim_history(Append(@, message))]
        s2 == IF speaker = "user"
              THEN [s1 EXCEPT !.total_user_turns = @ + 1]
              ELSE [s1 EXCEPT !.total_partner_turns = @ + 1]
    IN  [w EXCEPT !.sessions[id] = [s2 EXCEPT !.last_activity = t]]

\* Variant of _update_average that weighs the old average by count.
update_average_weighs_count(current_avg, new_value, count) ==
    float_div_int(float_add(float_mul_int(current_avg, count), new_value), count)

\* SessionManager._update_average
update_average(current_avg, new_value, count) ==
    float_div_int(float_add(float_mul_int(current_avg, count - 1), new_value), count)

\* Variant of the error bookkeeping that books every failure on the stt counter.
track_error_always_stt(mt, error_type) ==
    [mt EXCEPT !.stt_errors = @ + 1]

\* Variant of the error bookkeeping that books a failure without a stage on
\* all three counters.
track_error_books_unnamed(mt, error_type) ==
    CASE error_type = "stt" -> [mt EXCEPT !.stt_errors = @ + 1]
      [] error_type = "translation" -> [mt EXCEPT !.translation_errors = @ + 1]
      [] error_type = "tts" -> [mt EXCEPT !.tts_errors = @ + 1]
      [] OTHER -> [mt EXCEPT !.stt_errors = @ + 1, !.translation_errors = @ + 1,
                             !.tts_errors = @ + 1]

\* update_metrics, the failure branch's if / elif chain on error_type
track_error(mt, error_type) ==
    CASE error_type = "stt" -> [mt EXCEPT !.stt_errors = @ + 1]
      [] error_type = "translation" -> [mt EXCEPT !.translation_errors = @ + 1]
      [] error_type = "tts" -> [mt EXCEPT !.tts_errors = @ + 1]
      [] OTHER -> mt

\* An optional latency (<<>> for None, else <<f>>): `x or 0` and the averaging
\* under `if x is not None`.
or_zero(lat) == IF lat = <<>> THEN FloatZero ELSE lat[1]
averaged(avg, lat, count) == IF lat = <<>> THEN avg ELSE update_average(avg, lat[1], count)

\* update_metrics; the latencies are optional, error_type is "None" when left out.
update_metrics(w, id, stt_latency, translation_latency, tts_latency, success, error_type) ==
    IF id \notin DOMAIN w.metrics \/ id \notin DOMAIN w.sessions
    THEN w
    ELSE LET m0 == [w.metrics[id] EXCEPT !.total_turns = @ + 1]
             n  == m0.total_turns
             total == float_add(float_add(or_zero(stt_latency), or_zero(translation_latency)),
                                or_zero(tts_latency))
         IN  IF success
             THEN LET m1 == [m0 EXCEPT
                               !.successful_turns = @ + 1,
                               !.avg_stt_latency = averaged(@, stt_latency, n),
                               !.avg_translation_latency = averaged(@, translation_latency, n),
                               !.avg_tts_latency = averaged(@, tts_latency, n)]
                  IN  IF Num(total) > 0
                      THEN [w EXCEPT
                              !.metrics[id] = [m1 EXCEPT !.avg_total_latency =
                                                  update_average(@, total, n)],
                              !.sessions[id].total_processing_time_ms = @ + float_to_int(total)]
                      ELSE [w EXCEPT !.metrics[id] = m1]
             ELSE [w EXCEPT !.metrics[id] =
                      track_error([m0 EXCEPT !.failed_turns = @ + 1], error_type)]

\* The three lookups (dict.get); an Optional result is <<x>>, or <<>> for None.
get_session(w, id) == IF id \in DOMAIN w.sessions THEN <<w.sessions[id]>> ELSE <<>>
get_state_machine(w, id) == IF id \in w.state_machines THEN <<w.machines[id]>> ELSE <<>>
get_metrics(w, id) == IF id \in DOMAIN w.metrics THEN <<w.metrics[id]>> ELSE <<>>

\* A holder of the machine of session id (transport handler, pipeline) calls
\* its method op; the subscriber runs inside the call.
call_machine(w, id, op, t) ==
    LET m == ApplyOp(op, w.machines[id])
    IN  [w EXCEPT !.machines[id] = [m EXCEPT !.cb = <<>>],
                  !.sessions = Notify(@, id, m.cb, t)]

\* -------------------------------------------------------------------- state
InitMachine ==
    /\ sm = NewStateMachine
    /\ lastOp = <<"init">>
    /\ nFrames = 0
    /\ sttIn = <<>>
    /\ upOut = <<>>
    /\ ttsIn = <<>>
    /\ textOut = <<>>

\* SessionManager.__init__ and start(): three empty dicts, the cleanup loop running.
InitRegistry ==
    /\ sessions = EmptyDict
    /\ state_machines = {}
    /\ metrics = EmptyDict
    /\ machines = EmptyDict
    /\ pipelines = EmptyDict
    /\ disconnected_since = {}
    /\ now = 0
    /\ nextId = 1
    /\ nextMsg = 1
    /\ nCalls = 0
    /\ regOp = <<"init">>
    /\ cleanup_task = "running"

\* The stages a PipelineManager times.
Stages == {"stt", "translation", "tts"}

\* PipelineManager.__init__: no start instant stored; nothing emitted or pushed yet.
InitAux ==
    /\ stage_start = [st \in Stages |-> <<>>]
    /\ thinking_out = <<>>
    /\ trOut = <<>>
    /\ trace = <<>>

Init == InitMachine /\ InitRegistry /\ InitAux

\* A method call on the state machine: the callback list starts empty.
Call(op, m) == /\ sm' = m
               /\ lastOp' = <<op>>
               /\ UNCHANGED pipe
               /\ UNCHANGED regvars
               /\ UNCHANGED auxvars

Fresh == [sm EXCEPT !.cb = <<>>]

Connect                 == Call("connect", connect(Fresh))
Disconnect              == Call("disconnect", disconnect(Fresh))
PttPress                == Call("handle_ptt_press", handle_ptt_press(Fresh))
PttRelease              == Call("handle_ptt_release", handle_ptt_release(Fresh))
StartUserProcessing     == Call("start_user_processing", start_user_processing(Fresh))
FinishUserProcessing    == Call("finish_user_processing", finish_user_processing(Fresh))
StartPartnerProcessing  == Call("start_partner_processing", start_partner_processing(Fresh))
FinishPartnerProcessing == Call("finish_partner_processing", finish_partner_processing(Fresh))
HandleError             == Call("handle_error", handle_error(Fresh))
Reset                   == Call("reset", reset(Fresh))

\* One frame reaches the audio router.
AudioRouterProcessFrame ==
    /\ nFrames < MaxFrames
    /\ \E kind \in AudioRouterFrames, dir \in FrameDirection :
          LET f == [id |-> nFrames + 1, kind |-> kind]
              r == AudioRoute(sm, kind, dir)
          IN  /\ sttIn' = IF r = "stt" THEN Append(sttIn, f) ELSE sttIn
              /\ upOut' = IF r = "upstream" THEN Append(upOut, f) ELSE upOut
              /\ lastOp' = <<"audio_router", kind, dir>>
    /\ nFrames' = nFrames + 1
    /\ UNCHANGED <<sm, ttsIn, textOut>>
    /\ UNCHANGED regvars
    /\ UNCHANGED auxvars

\* One text unit (TextFrame from the translation stage) reaches the text router.
TextRouterProcessFrame ==
    /\ nFrames < MaxFrames
    /\ nFrames' = nFrames + 1
    /\ ttsIn' = IF TextToTts(sm) THEN Append(ttsIn, nFrames + 1) ELSE ttsIn
    /\ textOut' = IF TextEmit(sm) # <<>>
                  THEN Append(textOut, <<nFrames + 1, TextEmit(sm)[1]>>)
                  ELSE textOut
    /\ lastOp' = <<"text_router">>
    /\ UNCHANGED <<sm, sttIn, upOut>>
    /\ UNCHANGED regvars
    /\ UNCHANGED auxvars

Next ==
    \/ Connect
    \/ Disconnect
    \/ PttPress
    \/ PttRelease
    \/ StartUserProcessing
    \/ FinishUserProcessing
    \/ StartPartnerProcessing
    \/ FinishPartnerProcessing
    \/ HandleError
    \/ Reset
    \/ AudioRouterProcessFrame
    \/ TextRouterProcessFrame

Spec == Init /\ [][Next]_vars

\* ------------------------------------------------- actions on the registry
\* The SessionManager and the machine objects as the record the operators take.
W == [sessions |-> sessions, state_machines |-> state_machines,
      metrics |-> metrics, machines |-> machines]

SetW(w) ==
    /\ sessions' = w.sessions
    /\ state_machines' = w.state_machines
    /\ metrics' = w.metrics
    /\ machines' = w.machines

\* SessionManager.create_session (POST /api/session/create)
CreateSession ==
    /\ \E lp \in LanguagePairs :
          IF at_capacity(W)
          THEN /\ regOp' = <<"create_session", "RuntimeError">>
               /\ UNCHANGED <<sessions, state_machines, metrics, machines, nextId>>
          ELSE /\ nextId <= MaxIds
               /\ SetW(create_session(W, nextId, lp[1], lp[2], now))
               /\ nextId' = nextId + 1
               /\ regOp' = <<"create_session", "ok", nextId>>
    /\ UNCHANGED <<pipelines, disconnected_since, now, nextMsg, nCalls>>
    /\ UNCHANGED <<cleanup_task, smvars, auxvars>>

\* SessionManager.close_session, for any id (registered, closed or never created)
CloseSession(id) ==
    /\ SetW(close_session(W, id, now))
    /\ regOp' = <<"close_session", id, id \in DOMAIN sessions>>
    /\ disconnected_since' = IF id \in DOMAIN sessions /\ id \in state_machines
                             THEN disconnected_since \cup {id}
                             ELSE disconnected_since
    /\ UNCHANGED <<pipelines, now, nextId, nextMsg, nCalls>>
    /\ UNCHANGED <<cleanup_task, smvars, auxvars>>

\* One pass of the _cleanup_inactive_sessions loop.
CleanupInactiveSessions ==
    LET inactive == inactive_sessions(W, now)
    IN  /\ cleanup_task = "running"
        /\ SetW(close_all(W, inactive, now))
        /\ regOp' = <<"cleanup", inactive>>
        /\ disconnected_since' = disconnected_since \cup (inactive \cap state_machines)
        /\ UNCHANGED <<pipelines, now, nextId, nextMsg, nCalls>>
        /\ UNCHANGED <<cleanup_task, smvars, auxvars>>

\* One pass of the cleanup loop that raises: before the loop over the inactive
\* sessions, or inside it when the next session is about to be closed (the
\* sessions in done are closed by then).
CleanupError ==
    LET inactive == inactive_sessions(W, now)
    IN  /\ cleanup_task = "running"
        /\ \E done \in SUBSET inactive :
              /\ done # inactive \/ inactive = {}
              /\ SetW(close_all(W, done, now))
              /\ regOp' = <<"cleanup_error", done>>
              /\ disconnected_since' = disconnected_since \cup (done \cap state_machines)
        /\ cleanup_task' = cleanup_after("Exception")
        /\ UNCHANGED <<pipelines, now, nextId, nextMsg, nCalls>>
        /\ UNCHANGED <<smvars, auxvars>>

\* SessionManager.stop: cancels the cleanup task, then closes every session.
Stop ==
    /\ cleanup_task' = cleanup_after("CancelledError")
    /\ SetW(close_all(W, DOMAIN sessions, now))
    /\ regOp' = <<"stop">>
    /\ disconnected_since' = disconnected_since \cup (DOMAIN sessions \cap state_machines)
    /\ UNCHANGED <<pipelines, now, nextId, nextMsg, nCalls>>
    /\ UNCHANGED <<smvars, auxvars>>

\* A holder of the machine of session id calls one of its methods.
MachineCall(id, op) ==
    /\ nCalls < MaxCalls
    /\ id \in DOMAIN machines
    /\ SetW(call_machine(W, id, op, now))
    /\ nCalls' = nCalls + 1
    /\ regOp' = <<"call", id, op>>
    /\ disconnected_since' = CASE op = "disconnect" -> disconnected_since \cup {id}
                               [] op \in {"connect", "reset"} -> disconnected_since \ {id}
                               [] OTHER -> disconnected_since
    /\ UNCHANGED <<pipelines, now, nextId, nextMsg>>
    /\ UNCHANGED <<cleanup_task, smvars, auxvars>>

\* Time passes.
Tick ==
    /\ now < MaxTime
    /\ now' = now + 1
    /\ regOp' = <<"tick">>
    /\ UNCHANGED <<sessions, state_machines, metrics, machines, pipelines,
                   disconnected_since, nextId, nextMsg, nCalls>>
    /\ UNCHANGED <<cleanup_task, smvars, auxvars>>

\* SessionManager.add_message, for any id; the languages are left to default.
AddMessage(id, speaker) ==
    /\ nextMsg <= MaxMessages
    /\ IF id \in DOMAIN sessions
       THEN /\ speaker = "partner" => sessions[id].total_partner_turns < MaxPartnerTurns
            /\ SetW(add_message(W, id, speaker, nextMsg, "None", "None", now))
            /\ nextMsg' = nextMsg + 1
            /\ regOp' = <<"add_message", id, "Message", nextMsg>>
       ELSE /\ regOp' = <<"add_message", id, "None">>
            /\ UNCHANGED <<sessions, state_machines, metrics, machines, nextMsg>>
    /\ UNCHANGED <<pipelines, disconnected_since, now, nextId, nCalls>>
    /\ UNCHANGED <<cleanup_task, smvars, auxvars>>

\* Latencies (in milliseconds) handed to update_metrics.
LatencyValues == {4, 6}

\* The stages for which one call supplies its latency.
LatencyMasks == {{}, {"stt"}, {"translation"}, {"tts"}, Stages}

ErrorTypes == {"None", "stt", "translation", "tts"}

\* SessionManager.update_metrics, for any id: a successful turn supplying the
\* latency x for the stages in mask, or a failed turn of kind error_type.
UpdateMetrics(id, x, mask, success, error_type) ==
    LET lat(st) == IF st \in mask THEN <<FloatRound(x, 1, 0)>> ELSE <<>>
    IN  /\ Len(trace) < MaxTurns
        /\ SetW(update_metrics(W, id, lat("stt"), lat("translation"), lat("tts"),
                               success, error_type))
        /\ regOp' = <<"update_metrics", id, success, error_type>>
        /\ trace' = Append(trace, [session_id |-> id, latency |-> x, stages |-> mask,
                                   success |-> success, error_type |-> error_type])
        /\ UNCHANGED <<pipelines, disconnected_since, now, nextId, nextMsg, nCalls>>
        /\ UNCHANGED <<cleanup_task, smvars, stage_start, thinking_out, trOut>>

\* The metrics of one session: the registry after one create_session, then
\* update_metrics calls for that session and for an id that is absent.
NextMetrics ==
    \/ \E x \in LatencyValues : \E mask \in LatencyMasks :
          UpdateMetrics(1, x, mask, TRUE, "None")
    \/ \E error_type \in ErrorTypes : UpdateMetrics(1, 4, {}, FALSE, error_type)
    \/ UpdateMetrics(2, 4, Stages, TRUE, "None")

\* setup_webrtc_pipeline for session id: the pipeline gets the machine, its
\* output callbacks are set and its background task started.  The store into
\* session_manager._pipelines that ends the function names an attribute
\* SessionManager does not have, so the manager keeps no record of the pipeline.
SetupPipeline(id) ==
    /\ id \in state_machines
    /\ id \notin DOMAIN pipelines
    /\ pipelines' = Put(pipelines, id, [task_running |-> TRUE, callbacks_set |-> TRUE])
    /\ regOp' = <<"setup_webrtc_pipeline", id>>
    /\ UNCHANGED <<sessions, state_machines, metrics, machines,
                   disconnected_since, now, nextId, nextMsg, nCalls>>
    /\ UNCHANGED <<cleanup_task, smvars, auxvars>>

\* An audio chunk reaches the audio router of the running pipeline of session id.
RouteAudio(id) ==
    /\ id \in DOMAIN pipelines
    /\ pipelines[id].task_running
    /\ regOp' = <<"audio_router", id, AudioRoute(machines[id], "AudioRawFrame", "DOWNSTREAM")>>
    /\ UNCHANGED <<sessions, state_machines, metrics, machines, pipelines,
                   disconnected_since, now, nextId, nextMsg, nCalls>>
    /\ UNCHANGED <<cleanup_task, smvars, auxvars>>

\* The registry: sessions created, used through their machines, closed and swept.
NextReg ==
    \/ CreateSession
    \/ \E id \in 1..MaxIds : CloseSession(id)
    \/ CleanupInactiveSessions
    \/ \E id \in state_machines : \E op \in MachineOps : MachineCall(id, op)
    \/ Tick

SpecReg == Init /\ [][NextReg]_vars

\* The registry over the whole life of its sessions: created, used, closed by
\* their owner, swept by the cleanup loop (passes that raise included) and
\* closed by stop().
NextLifecycle ==
    \/ CreateSession
    \/ \E id \in 1..MaxIds : CloseSession(id)
    \/ \E id \in state_machines :
          \E op \in {"handle_ptt_press", "handle_ptt_release"} : MachineCall(id, op)
    \/ Tick
    \/ CleanupInactiveSessions
    \/ CleanupError
    \/ Stop

SpecLifecycle == Init /\ [][NextLifecycle]_vars

\* The cleanup loop: sessions are created, kept active by PTT events, and
\* swept by passes that may raise; stop() cancels the loop.  The loop is
\* `while True` around a sleep, so passes keep coming while the task runs;
\* the fairness condition says that not every pass from then on raises.
NextSweep ==
    \/ CreateSession
    \/ \E id \in state_machines :
          \E op \in {"handle_ptt_press", "handle_ptt_release"} : MachineCall(id, op)
    \/ Tick
    \/ CleanupInactiveSessions
    \/ CleanupError
    \/ Stop

SpecSweep == Init /\ [][NextSweep]_vars /\ WF_vars(CleanupInactiveSessions)

\* Sessions with their pipelines: the pipeline keeps calling the machine and
\* routing audio whether or not the session is still registered.
NextPipe ==
    \/ CreateSession
    \/ \E id \in 1..MaxIds : CloseSession(id)
    \/ \E id \in 1..MaxIds : SetupPipeline(id)
    \/ \E id \in DOMAIN pipelines : \E op \in MachineOps : MachineCall(id, op)
    \/ \E id \in DOMAIN pipelines : RouteAudio(id)

SpecPipe == Init /\ [][NextPipe]_vars

\* The message history of one session: the registry after one create_session,
\* then add_message calls for that session and for an id that is absent.
InitHist ==
    /\ InitMachine
    /\ LET w == create_session([sessions |-> EmptyDict, state_machines |-> {},
                                metrics |-> EmptyDict, machines |-> EmptyDict],
                               1, "en", "es", 0)
       IN  /\ sessions = w.sessions
           /\ state_machines = w.state_machines
           /\ metrics = w.metrics
           /\ machines = w.machines
    /\ pipelines = EmptyDict
    /\ disconnected_since = {}
    /\ now = 0
    /\ nextId = 2
    /\ nextMsg = 1
    /\ nCalls = 0
    /\ regOp = <<"create_session", "ok", 1>>
    /\ cleanup_task = "running"
    /\ InitAux

NextHist ==
    \E id \in 1..2 : \E speaker \in SpeakerTurn : AddMessage(id, speaker)

SpecHist == InitHist /\ [][NextHist]_vars

SpecMetrics == InitHist /\ [][NextMetrics]_vars

\* -------------------------------------------- PipelineManager stage timers
\* The stage names a caller may pass: the three timed stages and any other string.
StageNames == Stages \cup {"other"}

\* start_processing: the start instants after the call (ss is stage -> instant).
start_processing(ss, stage, t) ==
    IF stage \in Stages THEN [ss EXCEPT ![stage] = <<t>>] ELSE ss

\* Variant of finish_processing that leaves the start instant in place.
finish_processing_keeps_start(ss, stage, t) ==
    IF stage \in Stages /\ ss[stage] # <<>>
    THEN [start |-> ss, latency_ms |-> t - ss[stage][1]]
    ELSE [start |-> ss, latency_ms |-> 0]

\* finish_processing: the start instants after the call and the latency
\* returned (in ticks of the clock).
finish_processing(ss, stage, t) ==
    IF stage \in Stages /\ ss[stage] # <<>>
    THEN [start |-> [ss EXCEPT ![stage] = <<>>], latency_ms |-> t - ss[stage][1]]
    ELSE [start |-> ss, latency_ms |-> 0]

\* PipelineManager.start_processing; on_thinking is registered
\* (setup_webrtc_pipeline sets it before the pipeline runs).
StartProcessing(stage) ==
    /\ Len(trace) < MaxStageCalls
    /\ stage_start' = start_processing(stage_start, stage, now)
    /\ thinking_out' = Append(thinking_out, TRUE)
    /\ regOp' = <<"start_processing", stage>>
    /\ trace' = Append(trace, <<"start_processing", stage>>)
    /\ UNCHANGED <<sessions, state_machines, metrics, machines, pipelines,
                   disconnected_since, now, nextId, nextMsg, nCalls, cleanup_task>>
    /\ UNCHANGED <<smvars, trOut>>

\* PipelineManager.finish_processing
FinishProcessing(stage) ==
    /\ Len(trace) < MaxStageCalls
    /\ stage_start' = finish_processing(stage_start, stage, now).start
    /\ regOp' = <<"finish_processing", stage, finish_processing(stage_start, stage, now).latency_ms>>
    /\ trace' = Append(trace, <<"finish_processing", stage>>)
    /\ UNCHANGED <<sessions, state_machines, metrics, machines, pipelines,
                   disconnected_since, now, nextId, nextMsg, nCalls, cleanup_task>>
    /\ UNCHANGED <<smvars, thinking_out, trOut>>

NextStages ==
    \/ \E stage \in StageNames : StartProcessing(stage)
    \/ \E stage \in StageNames : FinishProcessing(stage)
    \/ Tick

SpecStages == Init /\ [][NextStages]_vars

\* ---------------------------------------------------- TranslationProcessor
\* How a call of _translate ends: the API answers, the API fails and the
\* fallback model answers, the API and the fallback both fail, or some other
\* exception is raised.  In the last two cases _translate raises.
TranslateOutcomes == {"ok", "fallback_ok", "fallback_fails", "error"}
translate_raises(outcome) == outcome \in {"fallback_fails", "error"}

\* The frames that reach the translation stage: a class, a text (for the text
\* classes), a direction, and how _translate would end on it.
TranslationInputs ==
    [cls : {"AudioRawFrame"}, text : {"None"}, direction : FrameDirection, outcome : {"ok"}]
    \cup [cls : {"TextFrame", "TranscriptionFrame"}, text : {"hola"},
          direction : {"UPSTREAM"}, outcome : {"ok"}]
    \cup [cls : {"TextFrame", "TranscriptionFrame"}, text : {"", "  "},
          direction : {"DOWNSTREAM"}, outcome : {"ok"}]
    \cup [cls : {"TextFrame", "TranscriptionFrame"}, text : {"hola"},
          direction : {"DOWNSTREAM"}, outcome : TranslateOutcomes]

\* str.strip() on the texts above: what is left is empty or not.
is_blank(text) == text \in {"", "  "}

\* Variant of process_frame that pushes nothing when _translate raises.
translation_pushes_drops_on_error(frame, inp) ==
    IF inp.cls \notin {"TextFrame", "TranscriptionFrame"} THEN <<frame>>
    ELSE IF inp.direction # "DOWNSTREAM" THEN <<frame>>
    ELSE IF is_blank(inp.text) THEN <<frame>>
    ELSE IF translate_raises(inp.outcome) THEN <<>>
    ELSE <<[id |-> frame.id, cls |-> "TextFrame", text |-> frame.text, translated |-> TRUE]>>

\* TranslationProcessor.process_frame: the frames it pushes for one frame.
\* A translation is the frame's text with translated set.
translation_pushes(frame, inp) ==
    IF inp.cls \notin {"TextFrame", "TranscriptionFrame"} THEN <<frame>>
    ELSE IF inp.direction # "DOWNSTREAM" THEN <<frame>>
    ELSE IF is_blank(inp.text) THEN <<frame>>
    ELSE IF translate_raises(inp.outcome) THEN <<frame>>
    ELSE <<[id |-> frame.id, cls |-> "TextFrame", text |-> frame.text, translated |-> TRUE]>>

\* One frame goes through the translation stage of the pipeline of session 1.
TranslationProcessFrame(inp) ==
    LET frame == [id |-> Len(trace) + 1, cls |-> inp.cls, text |-> inp.text, translated |-> FALSE]
    IN  /\ Len(trace) < MaxFrames
        /\ trOut' = trOut \o translation_pushes(frame, inp)
        /\ regOp' = <<"translation", inp.direction, inp.outcome>>
        /\ trace' = Append(trace, frame)
        /\ UNCHANGED <<sessions, state_machines, metrics, machines, pipelines,
                       disconnected_since, now, nextId, nextMsg, nCalls, cleanup_task>>
        /\ UNCHANGED <<smvars, stage_start, thinking_out>>

NextTranslation == \E inp \in TranslationInputs : TranslationProcessFrame(inp)

\* The translation stage of the one session's pipeline.
SpecTranslation == InitHist /\ [][NextTranslation]_vars

\* ------------------------------------------------------- a scripted client
\* The client of one newly created session: it presses and releases PTT, the
\* pipeline reports the start and the end of the user's processing, and audio
\* chunks arrive, in any order; trace keeps what was done.
UserTurnOps == {"handle_ptt_press", "handle_ptt_release",
                "start_user_processing", "finish_user_processing"}

\* create_session has built the machine and called connect() on it.
InitScenario ==
    /\ sm = [connect(NewStateMachine) EXCEPT !.cb = <<>>]
    /\ lastOp = <<"connect">>
    /\ nFrames = 0
    /\ sttIn = <<>>
    /\ upOut = <<>>
    /\ ttsIn = <<>>
    /\ textOut = <<>>
    /\ InitRegistry
    /\ InitAux

ScenarioCall(op) ==
    /\ Len(trace) < MaxSteps
    /\ sm' = ApplyOp(op, Fresh)
    /\ lastOp' = <<op>>
    /\ trace' = Append(trace, op)
    /\ UNCHANGED pipe
    /\ UNCHANGED regvars
    /\ UNCHANGED <<stage_start, thinking_out, trOut>>

\* One audio chunk travels downstream through the audio router.
ScenarioAudio ==
    /\ Len(trace) < MaxSteps
    /\ LET frame == [id |-> nFrames + 1, kind |-> "AudioRawFrame"]
           route == AudioRoute(sm, "AudioRawFrame", "DOWNSTREAM")
       IN  /\ sttIn' = IF route = "stt" THEN Append(sttIn, frame) ELSE sttIn
           /\ upOut' = IF route = "upstream" THEN Append(upOut, frame) ELSE upOut
    /\ nFrames' = nFrames + 1
    /\ lastOp' = <<"audio_router", "AudioRawFrame", "DOWNSTREAM">>
    /\ trace' = Append(trace, "audio")
    /\ UNCHANGED <<sm, ttsIn, textOut>>
    /\ UNCHANGED regvars
    /\ UNCHANGED <<stage_start, thinking_out, trOut>>

NextScenario ==
    \/ \E op \in UserTurnOps : ScenarioCall(op)
    \/ ScenarioAudio

SpecScenario == InitScenario /\ [][NextScenario]_vars

\* ------------------------------------------- audio in, text out, in flight
\* The pipeline (router -> stt -> translation -> text router) runs next to the
\* control messages that drive the state machine, so between an audio chunk
\* passing the audio router and its text reaching the text router any of the
\* machine's methods may run.  trace logs, per chunk pushed on to recognition,
\* the ptt_pressed flag at that instant; trOut the text units handed to the
\* text router, in the order of the chunks they come from.

\* An audio chunk reaches the audio router.
FlowAudio ==
    /\ nFrames < MaxFrames
    /\ LET f == [id |-> nFrames + 1, kind |-> "AudioRawFrame"]
           r == AudioRoute(sm, "AudioRawFrame", "DOWNSTREAM")
       IN  /\ sttIn' = IF r = "stt" THEN Append(sttIn, f) ELSE sttIn
           /\ trace' = IF r = "stt"
                       THEN Append(trace, [id |-> f.id, ptt_pressed |-> sm.ptt_pressed])
                       ELSE trace
    /\ nFrames' = nFrames + 1
    /\ lastOp' = <<"audio_router", "AudioRawFrame", "DOWNSTREAM">>
    /\ UNCHANGED <<sm, upOut, ttsIn, textOut>>
    /\ UNCHANGED regvars
    /\ UNCHANGED <<stage_start, thinking_out, trOut>>

\* The text of the oldest chunk still in flight reaches the text router.
FlowText ==
    /\ Len(trOut) < Len(trace)
    /\ LET id == trace[Len(trOut) + 1].id
       IN  /\ trOut' = Append(trOut, [id |-> id, cls |-> "TextFrame"])
           /\ ttsIn' = IF TextToTts(sm) THEN Append(ttsIn, id) ELSE ttsIn
           /\ textOut' = IF TextEmit(sm) # <<>>
                         THEN Append(textOut, <<id, TextEmit(sm)[1]>>)
                         ELSE textOut
    /\ lastOp' = <<"text_router">>
    /\ UNCHANGED <<sm, nFrames, sttIn, upOut>>
    /\ UNCHANGED regvars
    /\ UNCHANGED <<stage_start, thinking_out, trace>>

NextFlow ==
    \/ PttPress
    \/ PttRelease
    \/ StartUserProcessing
    \/ FinishUserProcessing
    \/ StartPartnerProcessing
    \/ FinishPartnerProcessing
    \/ FlowAudio
    \/ FlowText

\* The session is connected when the pipeline starts taking audio.
SpecFlow == InitScenario /\ [][NextFlow]_vars

\* ------------------------------------------------ speech boundaries and PTT
\* The VAD processor ahead of the audio router emits, for each speech segment,
\* one VADUserStartedSpeakingFrame and later one VADUserStoppedSpeakingFrame.
\* trace logs the frames the VAD emitted; a segment is open while the last one
\* is a started frame.
SegmentOpen ==
    trace # <<>> /\ trace[Len(trace)] = "VADUserStartedSpeakingFrame"

\* A speech-boundary frame of the VAD reaches the audio router.
SpeechFrame(kind) ==
    /\ nFrames < MaxFrames
    /\ LET f == [id |-> nFrames + 1, kind |-> kind]
           r == AudioRoute(sm, kind, "DOWNSTREAM")
       IN  sttIn' = IF r = "stt" THEN Append(sttIn, f) ELSE sttIn
    /\ trace' = Append(trace, kind)
    /\ nFrames' = nFrames + 1
    /\ lastOp' = <<"audio_router", kind, "DOWNSTREAM">>
    /\ UNCHANGED <<sm, upOut, ttsIn, textOut>>
    /\ UNCHANGED regvars
    /\ UNCHANGED <<stage_start, thinking_out, trOut>>

SpeechStarted == ~SegmentOpen /\ SpeechFrame("VADUserStartedSpeakingFrame")

SpeechStopped == SegmentOpen /\ SpeechFrame("VADUserStoppedSpeakingFrame")

NextSpeech ==
    \/ PttPress
    \/ PttRelease
    \/ StartUserProcessing
    \/ FinishUserProcessing
    \/ StartPartnerProcessing
    \/ FinishPartnerProcessing
    \/ SpeechStarted
    \/ SpeechStopped

SpecSpeech == InitScenario /\ [][NextSpeech]_vars

TypeOK ==
    /\ sm.state \in SessionState
    /\ sm.ptt_pressed \in BOOLEAN
    /\ sm.is_processing \in BOOLEAN
    /\ sm.current_speaker \in SpeakerTurn \cup {"None"}
    /\ Len(sm.cb) <= 1
    /\ nFrames \in 0..MaxFrames

\* ------------------------------------------------------------------- claims
\* Ids of the frames that reached recognition / synthesis.
SttIds == {sttIn[k].id : k \in 1..Len(sttIn)}
TtsIds == {ttsIn[k] : k \in 1..Len(ttsIn)}

StopFrames == {"UserStoppedSpeakingFrame", "VADUserStoppedSpeakingFrame"}

\* C1: handle_ptt_press in any state other than disconnected, whatever the
\* flags, ends with state user_speaking, current_speaker user and ptt_pressed
\* true; a second press right after the first changes neither state nor flags.
C1_PttPressForcesUserSpeaking ==
    [][ (lastOp'[1] = "handle_ptt_press" /\ sm.state # "disconnected")
        => /\ sm'.state = "user_speaking"
           /\ sm'.current_speaker = "user"
           /\ sm'.ptt_pressed
           /\ (lastOp[1] = "handle_ptt_press"
                 => get_state_info(sm') = get_state_info(sm)) ]_vars

\* A press has just pre-empted partner processing that is still in flight.
C1_Witness ==
    /\ lastOp[1] = "handle_ptt_press"
    /\ sm.cb = << <<"partner_processing", "user_speaking">> >>
    /\ sm.is_processing

\* C2: in every reachable state should_enable_vad and is_user_turn are not
\* both true.
C2_VadAndUserTurnExclusive ==
    ~(should_enable_vad(sm) /\ is_user_turn(sm))

\* PTT is held in a state whose value alone would make VAD eligible.
C2_Witness ==
    /\ sm.ptt_pressed
    /\ sm.state \in {"connected", "partner_listening"}
    /\ is_user_turn(sm)

\* C3: in every reachable state current_speaker is set only while the state
\* is user_speaking, user_processing or partner_processing; in connected,
\* partner_listening, error and disconnected it is None.
C3_SpeakerOnlyInSpeakingStates ==
    sm.current_speaker # "None"
        => sm.state \in {"user_speaking", "user_processing", "partner_processing"}

\* C4: once in error, the state stays error under handle_ptt_press,
\* handle_ptt_release and the four start/finish processing operations; only
\* connect or reset leave it.
C4_ErrorIsTerminal ==
    [][ (sm.state = "error"
          /\ lastOp'[1] \in {"handle_ptt_press", "handle_ptt_release",
                             "start_user_processing", "finish_user_processing",
                             "start_partner_processing", "finish_partner_processing"})
        => sm'.state = "error" ]_vars

\* C5: handle_ptt_release in user_speaking clears ptt_pressed and goes to
\* user_processing (speaker kept) when is_processing is set, to
\* partner_listening with no speaker when it is not; in every other state but
\* disconnected it only clears ptt_pressed.
C5_PttReleaseTransitions ==
    [][ (lastOp'[1] = "handle_ptt_release" /\ sm.state # "disconnected")
        => /\ ~sm'.ptt_pressed
           /\ sm'.is_processing = sm.is_processing
           /\ IF sm.state = "user_speaking"
              THEN IF sm.is_processing
                   THEN /\ sm'.state = "user_processing"
                        /\ sm'.current_speaker = sm.current_speaker
                   ELSE /\ sm'.state = "partner_listening"
                        /\ sm'.current_speaker = "None"
              ELSE /\ sm'.state = sm.state
                   /\ sm'.current_speaker = sm.current_speaker ]_vars

\* A release from user_speaking with processing in flight went to user_processing.
C5_Witness ==
    /\ lastOp[1] = "handle_ptt_release"
    /\ sm.cb = << <<"user_speaking", "user_processing">> >>
    /\ sm.current_speaker = "user"
    /\ ~sm.ptt_pressed

\* C6: start_partner_processing takes effect exactly when ptt_pressed is false
\* and the state is connected or partner_listening, giving partner_processing,
\* speaker partner, is_processing true; otherwise state and flags are unchanged.
C6_StartPartnerProcessingGuard ==
    [][ lastOp'[1] = "start_partner_processing"
        => IF ~sm.ptt_pressed /\ sm.state \in {"connected", "partner_listening"}
           THEN /\ sm'.state = "partner_processing"
                /\ sm'.current_speaker = "partner"
                /\ sm'.is_processing
                /\ ~sm'.ptt_pressed
           ELSE get_state_info(sm') = get_state_info(sm) ]_vars

\* A start_partner_processing took effect from partner_listening.
C6_Witness ==
    /\ lastOp[1] = "start_partner_processing"
    /\ sm.cb = << <<"partner_listening", "partner_processing">> >>
    /\ sm.current_speaker = "partner"
    /\ sm.is_processing

\* C7: a downstream AudioRawFrame reaches recognition iff is_user_turn or
\* should_enable_vad holds when it arrives at the audio router; a frame that
\* did not reach recognition on arrival never reaches it later.
C7_AudioForwardedIffTurnOrVad ==
    [][ /\ lastOp' = <<"audio_router", "AudioRawFrame", "DOWNSTREAM">>
           => ((nFrames' \in {sttIn'[k].id : k \in 1..Len(sttIn')})
                 <=> (is_user_turn(sm) \/ should_enable_vad(sm)))
        /\ \A i \in 1..nFrames :
              i \notin SttIds => i \notin {sttIn'[k].id : k \in 1..Len(sttIn')} ]_vars

\* An audio chunk was dropped in user_processing with PTT released.
C7_Witness ==
    /\ lastOp = <<"audio_router", "AudioRawFrame", "DOWNSTREAM">>
    /\ sm.state = "user_processing"
    /\ ~sm.ptt_pressed
    /\ nFrames \notin SttIds

\* C8: a speech-stopped event (manual or VAD) arriving at the audio router
\* while is_user_turn holds never reaches recognition; one arriving downstream
\* while is_user_turn is false is pushed on to recognition.
C8_StopSuppressedInUserTurn ==
    [][ (lastOp'[1] = "audio_router" /\ lastOp'[2] \in StopFrames)
        => /\ is_user_turn(sm) => sttIn' = sttIn
           /\ (~is_user_turn(sm) /\ lastOp'[3] = "DOWNSTREAM")
                 => sttIn' = Append(sttIn, [id |-> nFrames', kind |-> lastOp'[2]]) ]_vars

\* A VAD speech-stopped event was suppressed while PTT was held.
C8_Witness ==
    /\ lastOp = <<"audio_router", "VADUserStoppedSpeakingFrame", "DOWNSTREAM">>
    /\ is_user_turn(sm)
    /\ nFrames \notin SttIds

C10_NoSpeakerNoOutput ==
    [][ (lastOp'[1] = "text_router" /\ sm.current_speaker = "None")
        => /\ textOut' = textOut
           /\ ttsIn' = ttsIn ]_vars

\* The ten methods of the state machine, as named in lastOp.
\* C11: every operation that changes the value of state calls the registered
\* state-change callback exactly once, with (old, new); an operation that
\* leaves the value unchanged does not call it.
C11_CallbackOncePerStateChange ==
    [][ lastOp'[1] \in MachineOps
        => sm'.cb = IF sm'.state # sm.state
                    THEN << <<sm.state, sm'.state>> >>
                    ELSE <<>> ]_vars

\* C13: connect() in any state other than disconnected changes neither state
\* nor flags and fires no callback.
C13_ConnectNoOpWhenConnected ==
    [][ (lastOp'[1] = "connect" /\ sm.state # "disconnected")
        => /\ get_state_info(sm') = get_state_info(sm)
           /\ sm'.cb = <<>> ]_vars

\* C14: whenever connect() moves the machine to connected, ptt_pressed and
\* is_processing are false and current_speaker is None right after it.
C14_ConnectResetsFlags ==
    [][ (lastOp'[1] = "connect" /\ sm.state # "connected" /\ sm'.state = "connected")
        => /\ ~sm'.ptt_pressed
           /\ ~sm'.is_processing
           /\ sm'.current_speaker = "None" ]_vars

\* C15: while the state is error no audio chunk is pushed to recognition, no
\* text unit is pushed to synthesis and no text is emitted to the text sink.
C15_NoOutputInError ==
    [][ (sm.state = "error"
          /\ \/ lastOp' = <<"audio_router", "AudioRawFrame", "DOWNSTREAM">>
             \/ lastOp'[1] = "text_router")
        => /\ sttIn' = sttIn
           /\ ttsIn' = ttsIn
           /\ textOut' = textOut ]_vars

\* C12: for every session in the registry, Session.state equals the current
\* state of the session's state machine, whatever methods were called on it.
C12_SessionStateInSync ==
    \A id \in DOMAIN sessions :
        id \in state_machines => sessions[id].state = machines[id].state

\* C16: an audio chunk routed for a machine that was disconnected (by
\* disconnect() or by close_session) and has not been connected or reset since
\* is dropped, whatever other methods were called on the machine in between.
C16_DroppedAfterDisconnect ==
    (regOp[1] = "audio_router" /\ regOp[2] \in disconnected_since)
        => regOp[3] = "drop"

\* C17: close_session(id) on a registered id leaves the machine disconnected
\* and get_session, get_state_machine and get_metrics all answering None; on
\* an id that is absent it changes nothing.
C17_CloseSessionRemovesRecords ==
    [][ regOp'[1] = "close_session"
        => LET id == regOp'[2]
           IN  IF id \in DOMAIN sessions
               THEN /\ id \in state_machines
                       => get_state_info(machines'[id]) = <<"disconnected", FALSE, FALSE, "None">>
                    /\ get_session(W', id) = <<>>
                    /\ get_state_machine(W', id) = <<>>
                    /\ get_metrics(W', id) = <<>>
               ELSE W' = W ]_vars

C17_Witness ==
    /\ regOp = <<"close_session", 1, TRUE>>
    /\ machines[1].state = "disconnected"
    /\ get_session(W, 1) = <<>>
    /\ get_state_machine(W, 1) = <<>>
    /\ get_metrics(W, 1) = <<>>

\* C18: after close_session on a session that has a pipeline, the pipeline's
\* background task is no longer running and its output callbacks are unset.
C18_CloseStopsPipeline ==
    [][ (regOp'[1] = "close_session" /\ regOp'[3] /\ regOp'[2] \in DOMAIN pipelines)
        => /\ ~pipelines'[regOp'[2]].task_running
           /\ ~pipelines'[regOp'[2]].callbacks_set ]_vars

\* C19: create_session with as many sessions as max_sessions raises
\* RuntimeError and leaves the three dicts as they were, and the number of
\* sessions never exceeds max_sessions under create, close and cleanup.
C19_CreateAtCapacityRejected ==
    /\ [](Cardinality(DOMAIN sessions) <= max_sessions)
    /\ [][ (regOp'[1] = "create_session" /\ Cardinality(DOMAIN sessions) = max_sessions)
           => /\ regOp'[2] = "RuntimeError"
              /\ UNCHANGED <<sessions, state_machines, metrics>> ]_vars

C19_Witness ==
    /\ regOp = <<"create_session", "RuntimeError">>
    /\ Cardinality(DOMAIN sessions) = max_sessions

\* C20: after k add_message calls on a session its history holds the last
\* min(k, 50) of the k messages, in the order they were added.
C20_HistoryIsLastFifty ==
    \A id \in DOMAIN sessions :
        LET k    == nextMsg - 1
            msgs == sessions[id].messages
            n    == IF k < MessageCap THEN k ELSE MessageCap
        IN  /\ Len(msgs) = n
            /\ \A i \in 1..n : msgs[i].id = k - n + i

C20_Witness ==
    /\ regOp[1] = "add_message"
    /\ nextMsg - 1 > MessageCap
    /\ Len(sessions[1].messages) = MessageCap
    /\ sessions[1].messages[1].id = nextMsg - MessageCap

\* C21: after one pass of the cleanup loop, a session whose last_activity was
\* older than the timeout at that instant is absent from list_sessions(), and
\* every other session is still listed.
C21_SweepClosesExactlyExpired ==
    [][ regOp'[1] = "cleanup"
        => \A id \in DOMAIN sessions :
              (id \in list_sessions(W'))
                  <=> ~(now > sessions[id].last_activity + session_timeout_seconds) ]_vars

C21_Witness ==
    /\ regOp[1] = "cleanup"
    /\ regOp[2] = {1}
    /\ list_sessions(W) = {}

\* A registered session whose last_activity is older than the timeout.
Expired(id) ==
    /\ id \in DOMAIN sessions
    /\ now > sessions[id].last_activity + session_timeout_seconds

ErrorCount(mt, st) ==
    CASE st = "stt" -> mt.stt_errors
      [] st = "translation" -> mt.translation_errors
      [] st = "tts" -> mt.tts_errors

AvgLatency(mt, st) ==
    CASE st = "stt" -> mt.avg_stt_latency
      [] st = "translation" -> mt.avg_translation_latency
      [] st = "tts" -> mt.avg_tts_latency

\* C23: update_metrics with success = False and a stage as error_type adds one
\* to failed_turns and to that stage's error counter only, and leaves the four
\* latency averages and the session's total_processing_time_ms unchanged.
C23_FailureCountsOnlyNamedStage ==
    [][ (regOp'[1] = "update_metrics" /\ ~regOp'[3] /\ regOp'[4] \in Stages
           /\ regOp'[2] \in DOMAIN metrics /\ regOp'[2] \in DOMAIN sessions)
        => LET id == regOp'[2]
               a  == metrics[id]
               b  == metrics'[id]
           IN  /\ b.failed_turns = a.failed_turns + 1
               /\ \A st \in Stages :
                     ErrorCount(b, st) = ErrorCount(a, st) + (IF st = regOp'[4] THEN 1 ELSE 0)
               /\ \A st \in Stages : AvgLatency(b, st) = AvgLatency(a, st)
               /\ b.avg_total_latency = a.avg_total_latency
               /\ sessions'[id].total_processing_time_ms
                     = sessions[id].total_processing_time_ms ]_vars

C23_Witness ==
    /\ regOp = <<"update_metrics", 1, FALSE, "translation">>
    /\ metrics[1].failed_turns = 1
    /\ metrics[1].translation_errors = 1
    /\ metrics[1].avg_translation_latency # FloatZero

\* Every update_metrics call so far was a successful one on session 1 that
\* supplied the latency x for stage st.
SameLatencyRun(st, x) ==
    /\ trace # <<>>
    /\ \A i \in 1..Len(trace) :
          /\ trace[i].session_id = 1
          /\ trace[i].success
          /\ st \in trace[i].stages
          /\ trace[i].latency = x

\* The integer n is a float: rounding leaves it as it is.
Representable(n) == Num(FloatRound(n, 1, 0)) = n * Den(FloatRound(n, 1, 0))

\* C24 as stated: on a fresh session, after n >= 1 successful update_metrics
\* calls that each supply the latency x for a stage, the stage's running
\* average equals x.
C24_AverageEqualsLatency ==
    \A st \in Stages : \A x \in LatencyValues :
        SameLatencyRun(st, x) => AvgLatency(metrics[1], st) = FloatRound(x, 1, 0)

\* C24, amended: the running average equals x when the products k * x, for k
\* up to the number of calls, are floats (the arithmetic of _update_average
\* is then exact); otherwise it may be off by rounding.
C24_AverageEqualsLatencyWhenExact ==
    \A st \in Stages : \A x \in LatencyValues :
        (SameLatencyRun(st, x) /\ \A k \in 1..Len(trace) : Representable(k * x))
            => AvgLatency(metrics[1], st) = FloatRound(x, 1, 0)

C24_Witness ==
    /\ Len(trace) = MaxTurns
    /\ SameLatencyRun("stt", 4)
    /\ metrics[1].total_turns = MaxTurns
    /\ metrics[1].avg_stt_latency = FloatRound(4, 1, 0)

\* C25: from a newly created session, handle_ptt_press(); one audio chunk;
\* start_user_processing(); handle_ptt_release() ends in user_processing with
\* the chunk forwarded, and finish_user_processing() after that ends in
\* partner_listening with no current speaker and is_processing false.
C25_UserTurnScenario ==
    /\ trace = <<"handle_ptt_press", "audio", "start_user_processing", "handle_ptt_release">>
         => /\ sm.state = "user_processing"
            /\ sttIn = <<[id |-> 1, kind |-> "AudioRawFrame"]>>
    /\ trace = <<"handle_ptt_press", "audio", "start_user_processing", "handle_ptt_release",
                 "finish_user_processing">>
         => /\ sm.state = "partner_listening"
            /\ sm.current_speaker = "None"
            /\ ~sm.is_processing
            /\ sttIn = <<[id |-> 1, kind |-> "AudioRawFrame"]>>

C25_Witness ==
    /\ trace = <<"handle_ptt_press", "audio", "start_user_processing", "handle_ptt_release",
                 "finish_user_processing">>
    /\ sm.state = "partner_listening"
    /\ Len(sttIn) = 1

\* C26: handle_ptt_press() and handle_ptt_release() on a disconnected machine
\* change none of state, ptt_pressed, is_processing and current_speaker and
\* fire no state-change callback.
C26_PttIgnoredWhenDisconnected ==
    [][ (lastOp'[1] \in {"handle_ptt_press", "handle_ptt_release"}
           /\ sm.state = "disconnected")
        => /\ get_state_info(sm') = get_state_info(sm)
           /\ sm'.cb = <<>> ]_vars

C26_Witness ==
    /\ lastOp = <<"handle_ptt_press">>
    /\ get_state_info(sm) = <<"disconnected", FALSE, FALSE, "None">>
    /\ sm.cb = <<>>

\* C27: finish_processing emits thinking(false), as start_processing emits
\* thinking(true), so that every thinking(true) is followed by a
\* thinking(false) once the stage ends.
C27_ThinkingClearedAtStageEnd ==
    [][ regOp'[1] = "finish_processing"
        => thinking_out' = Append(thinking_out, FALSE) ]_vars

\* C28: finish_processing(stage) clears the start instant of that stage and
\* of no other; called on a stage with no start instant (as a second call in
\* a row is) it returns 0.
C28_FinishClearsOwnStart ==
    [][ regOp'[1] = "finish_processing"
        => LET stage == regOp'[2]
           IN  /\ \A st \in Stages :
                     stage_start'[st] = IF st = stage THEN <<>> ELSE stage_start[st]
               /\ (stage \in Stages /\ stage_start[stage] = <<>>) => regOp'[3] = 0 ]_vars

C28_Witness ==
    /\ Len(trace) = 4
    /\ trace[2] = <<"start_processing", "stt">>
    /\ trace[3] = <<"finish_processing", "stt">>
    /\ trace[4] = <<"finish_processing", "stt">>
    /\ regOp = <<"finish_processing", "stt", 0>>
    /\ stage_start["tts"] # <<>>
    /\ now > 0

\* The frame the last translation step took in was a text frame travelling
\* downstream with text that is not blank.
TranslatedInput(frame) ==
    /\ frame.cls \in {"TextFrame", "TranscriptionFrame"}
    /\ ~is_blank(frame.text)

\* C29: for a non-blank text frame the translation stage pushes exactly one
\* frame downstream whether _translate succeeds or raises, and when it raises
\* that frame is the original one, with the untranslated text.
C29_OneFramePerTranscription ==
    [][ (regOp'[1] = "translation" /\ regOp'[2] = "DOWNSTREAM"
           /\ TranslatedInput(trace'[Len(trace')]))
        => /\ Len(trOut') = Len(trOut) + 1
           /\ trOut'[Len(trOut')].id = trace'[Len(trace')].id
           /\ translate_raises(regOp'[3])
                => trOut'[Len(trOut')] = trace'[Len(trace')] ]_vars

C29_Witness ==
    /\ regOp = <<"translation", "DOWNSTREAM", "fallback_fails">>
    /\ Len(trOut) = Len(trace)
    /\ trOut[Len(trOut)] = [id |-> Len(trace), cls |-> "TranscriptionFrame",
                             text |-> "hola", translated |-> FALSE]

\* C30: after a failure of the translation stage in a session, the session's
\* translation_errors counter is one higher than before.
C30_TranslationFailureCounted ==
    [][ (regOp'[1] = "translation" /\ regOp'[2] = "DOWNSTREAM"
           /\ TranslatedInput(trace'[Len(trace')]) /\ translate_raises(regOp'[3]))
        => metrics'[1].translation_errors = metrics[1].translation_errors + 1 ]_vars

\* C31: each add_message on an existing session increments exactly one turn
\* counter, the one of the message's speaker, so total_user_turns plus
\* total_partner_turns equals the number of messages ever added to the session,
\* whatever the history has evicted.
C31_TurnCountersCountMessages ==
    /\ [](\A id \in DOMAIN sessions :
            sessions[id].total_user_turns + sessions[id].total_partner_turns
                = nextMsg - 1)
    /\ [][ (regOp'[1] = "add_message" /\ regOp'[3] = "Message")
            => LET id   == regOp'[2]
                   old  == sessions[id]
                   new  == sessions'[id]
                   last == new.messages[Len(new.messages)]
               IN  /\ last.id = regOp'[4]
                   /\ new.total_user_turns = old.total_user_turns
                          + (IF last.speaker = "user" THEN 1 ELSE 0)
                   /\ new.total_partner_turns = old.total_partner_turns
                          + (IF last.speaker = "partner" THEN 1 ELSE 0) ]_vars

\* More messages were added than the history keeps, one of them the partner's.
C31_Witness ==
    /\ regOp[1] = "add_message"
    /\ nextMsg - 1 > MessageCap
    /\ sessions[1].total_partner_turns = 1
    /\ sessions[1].total_user_turns = nextMsg - 2
    /\ Len(sessions[1].messages) < nextMsg - 1

\* C32: in every reachable state with ptt_pressed true, the state is
\* user_speaking and current_speaker is user, whatever finish, error or connect
\* events arrive while the button is held.
C32_PttHeldMeansUserSpeaking ==
    sm.ptt_pressed => (sm.state = "user_speaking" /\ sm.current_speaker = "user")

\* C33: in every reachable state with ptt_pressed false, is_processing false
\* and a state that is neither disconnected nor error, should_enable_vad is
\* true.
C33_IdleEnablesVad ==
    (~sm.ptt_pressed /\ ~sm.is_processing /\ sm.state \notin {"disconnected", "error"})
        => should_enable_vad(sm)

\* Ids of the text units the text-output sink received with a given speaker.
TextIdsOf(speaker) ==
    {textOut[k][1] : k \in {j \in 1..Len(textOut) : textOut[j][2] = speaker}}

\* C34: a text unit whose audio was forwarded on the VAD path (ptt_pressed
\* false) is never pushed to the synthesis stage and is never emitted as the
\* user's, whatever happened between the audio and the text.
C34_VadTextNeverSynthesized ==
    \A k \in 1..Len(trOut) :
        ~trace[k].ptt_pressed
            => /\ trace[k].id \notin TtsIds
               /\ trace[k].id \notin TextIdsOf("user")

\* C35: a text unit whose audio was forwarded while PTT was held is pushed to
\* the synthesis stage and emitted to the text-output sink as the user's,
\* whatever happened between the audio and the text.
C35_PttTextSynthesized ==
    \A k \in 1..Len(trOut) :
        trace[k].ptt_pressed
            => /\ trace[k].id \in TtsIds
               /\ trace[k].id \in TextIdsOf("user")

\* Number of frames of one kind that reached recognition.
SttCount(kind) == Cardinality({k \in 1..Len(sttIn) : sttIn[k].kind = kind})

\* C36: speech boundaries reaching recognition stay balanced: once the VAD has
\* closed its segment and PTT is released, every speech-started frame that was
\* forwarded has a speech-stopped frame forwarded too (a stop suppressed while
\* PTT was held has been delivered or replaced).
C36_SpeechBoundariesBalanced ==
    (~SegmentOpen /\ ~sm.ptt_pressed)
        => SttCount("VADUserStoppedSpeakingFrame") = SttCount("VADUserStartedSpeakingFrame")

\* The update_metrics calls among the first n that were successful calls on
\* session 1 supplying a latency for stage st; the sum of those latencies.
Supplied(st, n) ==
    {i \in 1..n : trace[i].session_id = 1 /\ trace[i].success /\ st \in trace[i].stages}

RECURSIVE SuppliedSum(_, _)
SuppliedSum(st, n) ==
    IF n = 0 THEN 0
    ELSE SuppliedSum(st, n - 1) + (IF n \in Supplied(st, n) THEN trace[n].latency ELSE 0)

\* C37: after any interleaving of successful and failed update_metrics calls,
\* calls that leave a stage's latency out included, each stage's running
\* average is the arithmetic mean of the latencies supplied for that stage in
\* successful calls.
C37_AverageIsMeanOfSupplied ==
    \A st \in Stages :
        LET n == Cardinality(Supplied(st, Len(trace)))
        IN  n > 0 => AvgLatency(metrics[1], st)
                        = FloatRound(SuppliedSum(st, Len(trace)), n, 0)

\* C38: total_turns is successful_turns plus failed_turns, and the three stage
\* error counters together do not exceed failed_turns.
C38_TurnCountersAddUp ==
    \A id \in DOMAIN metrics :
        LET mt == metrics[id]
        IN  /\ mt.total_turns = mt.successful_turns + mt.failed_turns
            /\ mt.stt_errors + mt.translation_errors + mt.tts_errors <= mt.failed_turns

\* A success, a failure booked on a stage and a failure without a stage.
C38_Witness ==
    /\ regOp[1] = "update_metrics"
    /\ metrics[1].total_turns = 3
    /\ metrics[1].successful_turns = 1
    /\ metrics[1].failed_turns = 2
    /\ metrics[1].stt_errors + metrics[1].translation_errors + metrics[1].tts_errors = 1

\* C39: after every create_session (successful or failed), close_session,
\* cleanup pass and stop, the session map, the state-machine map and the
\* metrics map hold exactly the same session ids.
C39_MapsShareIds ==
    /\ DOMAIN sessions = state_machines
    /\ DOMAIN metrics = state_machines

\* A create_session rejected at capacity, after an earlier session was closed.
C39_Witness ==
    /\ regOp = <<"create_session", "RuntimeError">>
    /\ disconnected_since # {}
    /\ DOMAIN sessions # {}
    /\ DOMAIN sessions \cap disconnected_since = {}
    /\ DOMAIN metrics = DOMAIN sessions

\* C40: a method called on the state machine of a session that is no longer
\* registered (a pipeline still holds the machine after close_session) does
\* not put the session back into any of the three maps and changes neither
\* the state nor the last_activity of any registered session.
C40_ClosedSessionEventsIgnored ==
    [][ (regOp'[1] = "call" /\ regOp'[2] \notin DOMAIN sessions)
        => /\ sessions' = sessions
           /\ state_machines' = state_machines
           /\ metrics' = metrics ]_vars

\* The machine of a closed session has changed state again while another
\* session is registered.
C40_Witness ==
    /\ regOp[1] = "call"
    /\ regOp[2] \in disconnected_since \cup DOMAIN pipelines
    /\ regOp[2] \notin DOMAIN sessions
    /\ machines[regOp[2]].state # "disconnected"
    /\ DOMAIN sessions # {}
====
